---- MODULE Spec2Model ----
(***************************************************************************)
(* Model of the MilesConnect fleet store and of the handlers that change   *)
(* it: dispatch (createShipment), the position simulator                   *)
(* (POST /api/simulate), the status reconciler (POST/GET /api/sync-status  *)
(* and syncVehicleDriverStatuses), the shipment status actions, the        *)
(* delivery OTP actions, the payment handlers and the driver app's         *)
(* tracking-mode switch and GPS push.                                      *)
(*                                                                         *)
(* Time is in milliseconds (Date.now()).  Coordinates are [lng, lat] pairs *)
(* in millidegrees; every modelled route runs along the meridian lng = 0,  *)
(* where the haversine distance is exactly R * |dLat| (in radians).        *)
(* Distances are kept in metres.  An optional column (eta, delivered_at    *)
(* or last_location_update) is the empty set when NULL and {t} when set.   *)
(***************************************************************************)
EXTENDS Integers, Sequences, FiniteSets, TLC

VARIABLES vehicles, drivers, shipments, now, tickLog, tickResponse,
          syncReports, inspectReport, response, inflight, sample

vars == <<vehicles, drivers, shipments, now, tickLog, tickResponse,
          syncReports, inspectReport, response, inflight, sample>>

store == <<vehicles, drivers, shipments>>

(***************************************************************************)
(* Bounds of the model.                                                    *)
(***************************************************************************)
MaxClockSteps == 1
MaxFailedWrites == 1
MaxOtpWaits == 3

\* the rows of the vehicles and drivers tables (the fleet is data: Init fixes
\* it and no modelled handler inserts or deletes a vehicle or driver)
Vehicles == DOMAIN vehicles
Drivers == DOMAIN drivers

\* the shipment ids the dispatcher hands out, in this order
ShipmentOrder == <<"s1", "s2">>
Shipments == {ShipmentOrder[i] : i \in 1..Len(ShipmentOrder)}

(***************************************************************************)
(* Program constants.                                                      *)
(***************************************************************************)
updateIntervalSeconds == 3
avgSpeedKmH == 30
defaultDistanceM == 10000
SIMULATION_INTERVAL_MS == 3000
\* 10 * 60 * 1000
OtpExpiryMs == 600000
\* 6371 km * pi / 180 = 111.195 km per degree = 111195 metres per 1000 millidegrees
MetresPerDegree == 111195

NoShipment == "null"
NoId == "null"
NoRoute == "null"
NoPayment == "null"
NoOtp == "null"

(***************************************************************************)
(* Arithmetic helpers (Math.max, Math.min, Math.ceil, Math.round on        *)
(* non-negative rationals given as numerator / denominator).               *)
(***************************************************************************)
Max(a, b) == IF a >= b THEN a ELSE b
Min(a, b) == IF a <= b THEN a ELSE b
Abs(a) == IF a >= 0 THEN a ELSE 0 - a
CeilDiv(a, b) == (a + b - 1) \div b
RoundDiv(a, b) == (2 * a + b) \div (2 * b)

(***************************************************************************)
(* Route geometries as the routing provider returns them at dispatch.      *)
(* duration = 0 stands for a missing duration and distance = 0 for a       *)
(* missing distance (both falsy in the code).                              *)
(***************************************************************************)
RouteIds == {"rA", "rB", "rC"}

RouteGeometry(id) ==
    CASE id = "rA" -> [coordinates |-> << <<0, 0>>, <<0, 10>> >>,
                       duration |-> 30, distance |-> 1112]
      [] id = "rB" -> [coordinates |-> << <<0, 0>>, <<0, 10>>, <<0, 20>>, <<0, 30>>, <<0, 40>> >>,
                       duration |-> 6, distance |-> 4448]
      [] id = "rC" -> [coordinates |-> << <<0, 0>>, <<0, 40>>, <<0, 81>> >>,
                       duration |-> 0, distance |-> 9000]
      [] id = "rD" -> [coordinates |-> << <<0, 0>>, <<0, 30>>, <<0, 60>> >>,
                       duration |-> 0, distance |-> 0]
      [] id = "rF" -> [coordinates |-> << <<0, 0>>, <<0, 1>>, <<0, 2>>, <<0, 3>>, <<0, 4>> >>,
                       duration |-> 0, distance |-> 50]
      [] id = "rS" -> [coordinates |-> << <<0, 7>> >>,
                       duration |-> 30, distance |-> 1000]
      [] id = "rE" -> [coordinates |-> << >>,
                       duration |-> 30, distance |-> 1000]
      [] id = "rN" -> [duration |-> 30, distance |-> 1000]

\* route values the column can hold that are not a route of at least two
\* points: a single point, an empty point list, an object without a
\* coordinates array, and a string that is not JSON
MalformedRoutes == {"rS", "rE", "rN", "rX"}

\* JSON.parse(vehicle.current_route) does not throw
isValidJson(id) == id # "rX"

\* route.coordinates && Array.isArray(route.coordinates)
hasCoordinates(route) == "coordinates" \in DOMAIN route

\* what the routing provider answers at dispatch: a route, or nothing when
\* the request fails
DispatchRoutes == RouteIds \cup {NoRoute}

\* coordinates[i] of the code is Point(coords, i): the code indexes from 0
Point(coords, i) == coords[i + 1]

StartPosition == <<0, 0>>
GpsPositions == { <<0, 5>> }
NoPosition == <<>>

\* samples of 0.8 + Math.random() * 0.4, in thousandths; Math.random() < 1
Variations == {800, 1000, 1199}

\* every thousandth the variation can take, and the routes the Position
\* Advancer's arithmetic is applied to on its own: the dispatched ones, one
\* with neither duration nor distance, one short enough to need several
\* points a tick at 30 km/h
JitterSamples == 800..1199
SampleRoutes == RouteIds \cup {"rD", "rF"}

(***************************************************************************)
(* Geometry                                                                *)
(***************************************************************************)
\* haversineDistance for two points of one meridian, in metres
haversineDistance(p, q) == (Abs(q[2] - p[2]) * MetresPerDegree) \div 1000

RECURSIVE calculateRemainingDistance(_, _)
calculateRemainingDistance(coords, fromIndex) ==
    IF fromIndex < Len(coords) - 1
    THEN haversineDistance(Point(coords, fromIndex), Point(coords, fromIndex + 1))
         + calculateRemainingDistance(coords, fromIndex + 1)
    ELSE 0

(***************************************************************************)
(* Position Advancer, ETA Estimator and Arrival Detector of                *)
(* POST /api/simulate, computed on exact rationals.                        *)
(***************************************************************************)
\* Math.max(1, Math.ceil(totalPoints / (duration / updateIntervalSeconds))),
\* with duration = (distanceKm / 30) * 3600 when the route has none
\* the quotient rounded down instead of up
pointsPerUpdate_Floors(route) ==
    LET totalPoints == Len(route.coordinates) IN
    IF route.duration > 0
    THEN Max(1, (totalPoints * updateIntervalSeconds) \div route.duration)
    ELSE LET distanceM == IF route.distance # 0 THEN route.distance
                          ELSE defaultDistanceM
         IN Max(1, (totalPoints * updateIntervalSeconds * avgSpeedKmH * 1000)
                      \div (distanceM * 3600))

pointsPerUpdate(route) ==
    LET totalPoints == Len(route.coordinates) IN
    IF route.duration > 0
    THEN Max(1, CeilDiv(totalPoints * updateIntervalSeconds, route.duration))
    ELSE LET distanceM == IF route.distance # 0 THEN route.distance
                          ELSE defaultDistanceM
         IN Max(1, CeilDiv(totalPoints * updateIntervalSeconds * avgSpeedKmH * 1000,
                           distanceM * 3600))

\* Math.max(1, Math.round(pointsPerUpdate * variation)), variation in thousandths
actualPointsToMove(ppu, variation) == Max(1, RoundDiv(ppu * variation, 1000))

\* the advance without the clamp to the last index
nextIndexOf_NoClamp(currentIndex, pointsToMove, coords) == currentIndex + pointsToMove

\* the clamp one point short of the end
nextIndexOf_StopsShort(currentIndex, pointsToMove, coords) ==
    Min(currentIndex + pointsToMove, Len(coords) - 2)

nextIndexOf(currentIndex, pointsToMove, coords) ==
    Min(currentIndex + pointsToMove, Len(coords) - 1)

\* arrival only one past the end
isArrived_Strict(nextIndex, coords) == nextIndex > Len(coords) - 1

isArrived(nextIndex, coords) == nextIndex >= Len(coords) - 1

\* remaining time in ms; new Date(...) drops the fraction of a millisecond
remainingTimeMs(route, nextIndex) ==
    LET totalPoints == Len(route.coordinates) IN
    IF route.duration > 0
    THEN (route.duration * (totalPoints - nextIndex) * 1000) \div totalPoints
    ELSE (calculateRemainingDistance(route.coordinates, nextIndex) * 3600)
         \div avgSpeedKmH

\* the remaining time subtracted from now
newEta_Subtracts(route, nextIndex, t) == t - remainingTimeMs(route, nextIndex)

newEta(route, nextIndex, t) == t + remainingTimeMs(route, nextIndex)

(***************************************************************************)
(* Initial store: the seeded fleet, everything idle, no shipment yet.      *)
(***************************************************************************)
WriteKinds == {"shipment", "driver", "vehicle"}

NoLog == [branch |-> "none", route |-> NoRoute, currentIndex |-> 0, nextIndex |-> 0,
          totalPoints |-> 0, eta |-> {}, shipment |-> NoShipment, failed |-> {}]

NoTick == [status |-> "none", updated |-> 0, loadFailed |-> "none"]

NoInspect == [valid |-> FALSE, vehicles |-> {}, drivers |-> {}]

IdleVehicle == [status |-> "idle", tracking_mode |-> "simulated",
                position |-> NoPosition, current_route |-> NoRoute,
                route_index |-> 0, eta |-> {}, last_location_update |-> {}]

\* the last answer of a handler that reports success or an error to its
\* caller
NoResponse == [op |-> "none", shipment |-> NoShipment, code |-> NoOtp,
               result |-> "none"]

\* the invocations of the simulator under way, each with the closures it
\* pushed to `updates` and the writes they have still to issue, and the
\* resets a reconciliation has still to issue
TickIds == {"t1", "t2"}

NoInflight == [ticks |-> [t \in TickIds |-> << >>],
               reconcile |-> [vehicles |-> {}, drivers |-> {}]]

\* one application of the Position Advancer's arithmetic
NoSample == [route |-> NoRoute, variation |-> 0, pointsPerUpdate |-> 0,
             actualPointsToMove |-> 0]

\* no handler has answered, none is under way
Quiet ==
    /\ response = NoResponse
    /\ inflight = NoInflight
    /\ sample = NoSample

\* a handler that runs from its reads to its last write in one step, and
\* answers nothing the model keeps
RunsAlone ==
    /\ response' = NoResponse
    /\ UNCHANGED <<inflight, sample>>

NoShipmentRow == [status |-> "none", driver_id |-> NoId, vehicle_id |-> NoId,
                  delivered_at |-> {}, payment_status |-> NoPayment,
                        delivery_otp |-> NoOtp, otp_generated_at |-> {},
                        otp_verified_at |-> {}]

Init ==
    /\ vehicles = [v \in {"v1"} |-> IdleVehicle]
    /\ drivers = [d \in {"d1"} |-> [status |-> "idle"]]
    /\ shipments = [s \in Shipments |-> NoShipmentRow]
    /\ now = 0
    /\ tickLog = [v \in {"v1"} |-> NoLog]
    /\ tickResponse = NoTick
    /\ syncReports = <<>>
    /\ inspectReport = NoInspect
    /\ Quiet

\* bookkeeping of every handler other than the simulator and the
\* reconciler: their reports belong to the step that made them
ClearLogs ==
    /\ tickLog' = [v \in Vehicles |-> NoLog]
    /\ tickResponse' = NoTick
    /\ syncReports' = <<>>
    /\ inspectReport' = NoInspect

\* the same for a handler whose own answer the model does not keep
ClearReports ==
    /\ ClearLogs
    /\ RunsAlone

(***************************************************************************)
(* Dispatch: createShipment, offered the idle drivers and vehicles.        *)
(***************************************************************************)
\* vehicleUpdate of createShipment
dispatchedVehicle(row, r, t) ==
    [row EXCEPT !.status = "in_use",
                !.position = StartPosition,
                !.current_route = r,
                !.route_index = 0,
                !.eta = IF r # NoRoute THEN {t + RouteGeometry(r).duration * 1000}
                        ELSE {}]

Exists(s) == shipments[s].status \notin {"none", "deleted"}

CreateShipment(s, d, v, r) ==
    /\ \E i \in 1..Len(ShipmentOrder) :
          /\ s = ShipmentOrder[i]
          /\ shipments[s].status = "none"
          /\ \A j \in 1..(i - 1) : shipments[ShipmentOrder[j]].status # "none"
    /\ drivers[d].status = "idle"
    /\ vehicles[v].status = "idle"
    /\ shipments' = [shipments EXCEPT ![s] =
                        [status |-> "in_transit", driver_id |-> d,
                         vehicle_id |-> v, delivered_at |-> {},
                         payment_status |-> NoPayment,
                        delivery_otp |-> NoOtp, otp_generated_at |-> {},
                        otp_verified_at |-> {}]]
    /\ drivers' = [drivers EXCEPT ![d].status = "working"]
    /\ vehicles' = [vehicles EXCEPT ![v] = dispatchedVehicle(@, r, now)]
    /\ ClearReports
    /\ UNCHANGED now

(***************************************************************************)
(* POST /api/simulate: one tick of the position simulator.                 *)
(***************************************************************************)
\* .from('vehicles').select('*').eq('status', 'in_use')
inUseVehicles == {v \in Vehicles : vehicles[v].status = "in_use"}

\* the filter on tracking_mode left out
simulatedVehicles_NoFilter == inUseVehicles

\* vehicles.filter(v => !v.tracking_mode || v.tracking_mode === 'simulated')
simulatedVehicles == {v \in inUseVehicles : vehicles[v].tracking_mode = "simulated"}

\* .from('shipments').eq('status', 'in_transit').in('vehicle_id', vehicleIds),
\* restricted to vehicle v
activeShipmentsOf(v) ==
    {s \in Shipments : shipments[s].status = "in_transit" /\ shipments[s].vehicle_id = v}

\* the map keyed so that no lookup by vehicle id finds a shipment
shipmentMaps_Empty(loadError) == {[v \in simulatedVehicles |-> NoShipment]}

\* the shipmentMap the forEach can build: one in_transit shipment per vehicle,
\* whichever the query returns last; empty when the shipments query fails
shipmentMaps(loadError) ==
    {m \in [simulatedVehicles -> Shipments \cup {NoShipment}] :
        \A v \in simulatedVehicles :
            IF loadError = "shipments" \/ activeShipmentsOf(v) = {}
            THEN m[v] = NoShipment
            ELSE m[v] \in activeShipmentsOf(v)}

\* the vehicles that pass `if (!vehicle.current_route) continue`
routedVehicles == {v \in simulatedVehicles : vehicles[v].current_route # NoRoute}

\* the vehicles that reach the index computation: the route parses and has a
\* coordinates array
parsedVehicles ==
    {v \in routedVehicles : /\ isValidJson(vehicles[v].current_route)
                            /\ hasCoordinates(RouteGeometry(vehicles[v].current_route))}

\* what the loop body decides for vehicle v
tickPlan(v, shipment, variation) ==
    LET route == RouteGeometry(vehicles[v].current_route)
        coordinates == route.coordinates
        currentIndex == vehicles[v].route_index
        nextIndex == nextIndexOf(currentIndex,
                                 actualPointsToMove(pointsPerUpdate(route), variation),
                                 coordinates)
    IN  [branch |-> IF isArrived(nextIndex, coordinates) THEN "arrival" ELSE "progress",
         route |-> vehicles[v].current_route,
         currentIndex |-> currentIndex,
         nextIndex |-> nextIndex,
         totalPoints |-> Len(coordinates),
         eta |-> IF isArrived(nextIndex, coordinates) THEN {}
                 ELSE {newEta(route, nextIndex, now)},
         shipment |-> shipment,
         failed |-> {}]

\* the completion closure throws before its vehicle write: with no point in
\* the list, coordinates[coordinates.length - 1] is undefined and reading
\* [1] of it is a TypeError
throwsIn(plan) ==
    /\ plan.branch = "arrival"
    /\ plan.shipment # NoShipment
    /\ plan.totalPoints = 0

\* the store updates the closure pushed to `updates` issues
writesOf(plan) ==
    IF plan.branch = "progress" THEN {"vehicle"}
    ELSE IF plan.branch = "arrival" /\ plan.shipment # NoShipment
         THEN {"shipment"}
              \cup (IF shipments[plan.shipment].driver_id # NoId THEN {"driver"} ELSE {})
              \cup (IF throwsIn(plan) THEN {} ELSE {"vehicle"})
         ELSE {}

\* one rejected write keeping every write of the tick from taking effect
writeApplied_AllOrNothing(log, v, k) ==
    /\ k \in writesOf(log[v])
    /\ \A w \in DOMAIN log : log[w].failed = {}

\* write k of vehicle v's closure takes effect: it is issued, and the store
\* does not reject it; the closures of the other vehicles run on their own
writeApplied(log, v, k) ==
    /\ k \in writesOf(log[v])
    /\ k \notin log[v].failed

\* the response counting every simulated vehicle
updatedCount_AllSimulated(log) == Cardinality(simulatedVehicles)

\* updated: updates.length
updatedCount(log) == Cardinality({v \in DOMAIN log : writesOf(log[v]) # {}})

\* the completion write forgetting to clear the route columns
completedVehicle_KeepsRoute(v, plan) ==
    [vehicles[v] EXCEPT
        !.position = Point(RouteGeometry(plan.route).coordinates,
                           plan.totalPoints - 1),
        !.status = "idle",
        !.last_location_update = {now}]

\* the vehicle row after the plan's vehicle write; the points are those of
\* the route the tick loaded (the closure's `coordinates`)
completedVehicle(v, plan) ==
    [vehicles[v] EXCEPT
        !.position = Point(RouteGeometry(plan.route).coordinates,
                           plan.totalPoints - 1),
        !.status = "idle",
        !.current_route = NoRoute,
        !.route_index = 0,
        !.eta = {},
        !.last_location_update = {now}]

\* the in-progress write leaving route_index out
advancedVehicle_KeepsIndex(v, plan) ==
    [vehicles[v] EXCEPT
        !.position = Point(RouteGeometry(plan.route).coordinates,
                           plan.nextIndex),
        !.eta = plan.eta,
        !.last_location_update = {now}]

advancedVehicle(v, plan) ==
    [vehicles[v] EXCEPT
        !.position = Point(RouteGeometry(plan.route).coordinates,
                           plan.nextIndex),
        !.route_index = plan.nextIndex,
        !.eta = plan.eta,
        !.last_location_update = {now}]

\* the tick with its inputs: which load fails, the shipment map, the random
\* variation of every routed vehicle, and the writes the store rejects
\* (a rejected update returns an error object the handler never looks at)
RunTick(loadError, shipmentMap, variation, rejected) ==
    IF loadError = "vehicles"
    THEN /\ tickResponse' = [status |-> "error", updated |-> 0, loadFailed |-> "vehicles"]
         /\ tickLog' = [v \in Vehicles |-> NoLog]
         /\ UNCHANGED store
    ELSE LET log == [v \in Vehicles |->
                       IF v \notin inUseVehicles THEN [NoLog EXCEPT !.branch = "not_loaded"]
                       ELSE IF v \notin simulatedVehicles THEN [NoLog EXCEPT !.branch = "live"]
                       ELSE IF v \notin routedVehicles
                            THEN [NoLog EXCEPT !.branch = "no_route",
                                               !.shipment = shipmentMap[v]]
                       ELSE IF v \notin parsedVehicles
                            THEN [NoLog EXCEPT !.branch = "bad_route",
                                               !.route = vehicles[v].current_route,
                                               !.shipment = shipmentMap[v]]
                       ELSE LET plan == tickPlan(v, shipmentMap[v], variation[v])
                            IN [plan EXCEPT !.failed =
                                   {k \in writesOf(plan) : <<v, k>> \in rejected}]]
         IN
         /\ tickLog' = log
         /\ tickResponse' =
               [status |-> IF \E v \in Vehicles : throwsIn(log[v]) THEN "error" ELSE "ok",
                updated |-> updatedCount(log),
                loadFailed |-> loadError]
         /\ shipments' = [s \in Shipments |->
               IF \E v \in Vehicles : /\ log[v].branch = "arrival"
                                      /\ log[v].shipment = s
                                      /\ writeApplied(log, v, "shipment")
               THEN [shipments[s] EXCEPT !.status = "delivered",
                                         !.delivered_at = {now}]
               ELSE shipments[s]]
         /\ drivers' = [d \in Drivers |->
               IF \E v \in Vehicles : /\ log[v].branch = "arrival"
                                      /\ writeApplied(log, v, "driver")
                                      /\ shipments[log[v].shipment].driver_id = d
               THEN [drivers[d] EXCEPT !.status = "idle"]
               ELSE drivers[d]]
         /\ vehicles' = [v \in Vehicles |->
               IF writeApplied(log, v, "vehicle")
               THEN IF log[v].branch = "arrival"
                    THEN completedVehicle(v, log[v])
                    ELSE advancedVehicle(v, log[v])
               ELSE vehicles[v]]

\* the sets of writes the store may reject in one tick, among the writes
\* the tick issues
rejections(shipmentMap, variation) ==
    LET issued == {w \in parsedVehicles \X WriteKinds :
                     w[2] \in writesOf(tickPlan(w[1], shipmentMap[w[1]], variation[w[1]]))}
    IN {F \in SUBSET issued : Cardinality(F) <= MaxFailedWrites}

\* the shipments query is only sent when some simulated vehicle was loaded
loadErrors == IF simulatedVehicles = {} THEN {"none"} ELSE {"none", "shipments"}

Tick ==
    /\ \/ RunTick("vehicles", [v \in simulatedVehicles |-> NoShipment],
                  [v \in parsedVehicles |-> 1000], {})
       \/ \E loadError \in loadErrors :
          \E shipmentMap \in shipmentMaps(loadError) :
          \E variation \in [parsedVehicles -> Variations] :
          \E rejected \in rejections(shipmentMap, variation) :
             RunTick(loadError, shipmentMap, variation, rejected)
    /\ syncReports' = <<>>
    /\ inspectReport' = NoInspect
    /\ RunsAlone
    /\ UNCHANGED now

(***************************************************************************)
(* POST /api/sync-status (reconcile), syncVehicleDriverStatuses and        *)
(* GET /api/sync-status (inspect).                                         *)
(***************************************************************************)
\* the set of busy vehicles built from the driver ids
activeVehicleIds_FromDrivers ==
    {shipments[s].driver_id : s \in {t \in Shipments : shipments[t].status = "in_transit"}}
    \ {NoId}

\* new Set(activeShipments.map(s => s.vehicle_id).filter(Boolean))
activeVehicleIds ==
    {shipments[s].vehicle_id : s \in {t \in Shipments : shipments[t].status = "in_transit"}}
    \ {NoId}

activeDriverIds ==
    {shipments[s].driver_id : s \in {t \in Shipments : shipments[t].status = "in_transit"}}
    \ {NoId}

\* the scan passing over a vehicle that still holds a route
vehiclesToFix_RouteLess ==
    {v \in Vehicles : /\ vehicles[v].status = "in_use"
                      /\ v \notin activeVehicleIds
                      /\ vehicles[v].current_route = NoRoute}

\* inUseVehicles.filter(v => !activeVehicleIds.has(v.id))
vehiclesToFix == {v \in Vehicles : vehicles[v].status = "in_use" /\ v \notin activeVehicleIds}

\* workingDrivers.filter(d => !activeDriverIds.has(d.id))
driversToFix == {d \in Drivers : drivers[d].status = "working" /\ d \notin activeDriverIds}

\* the reset clearing the route but leaving the status
fixedVehicle_KeepsStatus(row) ==
    [row EXCEPT !.current_route = NoRoute, !.route_index = 0, !.eta = {}]

\* .update({ status: 'idle', current_route: null, route_index: 0, eta: null })
fixedVehicle(row) ==
    [row EXCEPT !.status = "idle", !.current_route = NoRoute,
                !.route_index = 0, !.eta = {}]

\* .update({ status: 'idle' })
fixedDriver(row) == [row EXCEPT !.status = "idle"]

\* the last two reports of an uninterrupted run of reconciliations (a
\* read-only inspect before the run keeps its own report)
Report(vs, ds) ==
    LET r == [vehiclesFixed |-> vs, driversFixed |-> ds]
    IN IF Len(syncReports) < 2 THEN Append(syncReports, r)
       ELSE <<syncReports[2], r>>

Reconcile ==
    /\ vehicles' = [v \in Vehicles |->
                      IF v \in vehiclesToFix THEN fixedVehicle(vehicles[v])
                      ELSE vehicles[v]]
    /\ drivers' = [d \in Drivers |->
                      IF d \in driversToFix THEN fixedDriver(drivers[d])
                      ELSE drivers[d]]
    /\ syncReports' = Report(vehiclesToFix, driversToFix)
    /\ tickLog' = [v \in Vehicles |-> NoLog]
    /\ tickResponse' = NoTick
    /\ RunsAlone
    /\ UNCHANGED <<shipments, now, inspectReport>>

\* the server action behind the dashboard's sync button: the same scan,
\* with the updates awaited one after the other
syncVehiclesToFix ==
    {v \in Vehicles : vehicles[v].status = "in_use"
        /\ \A s \in Shipments : shipments[s].status = "in_transit"
                                   => shipments[s].vehicle_id # v}

syncDriversToFix ==
    {d \in Drivers : drivers[d].status = "working"
        /\ \A s \in Shipments : shipments[s].status = "in_transit"
                                   => shipments[s].driver_id # d}

SyncVehicleDriverStatuses ==
    /\ vehicles' = [v \in Vehicles |->
                      IF v \in syncVehiclesToFix
                      THEN [vehicles[v] EXCEPT !.status = "idle",
                                               !.current_route = NoRoute,
                                               !.route_index = 0, !.eta = {}]
                      ELSE vehicles[v]]
    /\ drivers' = [d \in Drivers |->
                      IF d \in syncDriversToFix
                      THEN [drivers[d] EXCEPT !.status = "idle"]
                      ELSE drivers[d]]
    /\ syncReports' = Report(syncVehiclesToFix, syncDriversToFix)
    /\ tickLog' = [v \in Vehicles |-> NoLog]
    /\ tickResponse' = NoTick
    /\ RunsAlone
    /\ UNCHANGED <<shipments, now, inspectReport>>

\* the inspection reporting every in_use vehicle
inconsistentVehicles_AllInUse == {v \in Vehicles : vehicles[v].status = "in_use"}

\* GET: inUseVehicles.filter(v => !activeVehicleIds.has(v.id)) and the same
\* for the drivers, computed by the GET handler's own copy of the scan
inconsistentVehicles ==
    {v \in Vehicles : /\ vehicles[v].status = "in_use"
                      /\ ~ \E s \in Shipments : /\ shipments[s].status = "in_transit"
                                                /\ shipments[s].vehicle_id = v}

inconsistentDrivers ==
    {d \in Drivers : /\ drivers[d].status = "working"
                     /\ ~ \E s \in Shipments : /\ shipments[s].status = "in_transit"
                                               /\ shipments[s].driver_id = d}

Inspect ==
    /\ inspectReport' = [valid |-> TRUE, vehicles |-> inconsistentVehicles,
                         drivers |-> inconsistentDrivers]
    /\ tickLog' = [v \in Vehicles |-> NoLog]
    /\ tickResponse' = NoTick
    /\ syncReports' = <<>>
    /\ RunsAlone
    /\ UNCHANGED <<vehicles, drivers, shipments, now>>

(***************************************************************************)
(* Shipment status actions of the dashboard and the driver app.            *)
(***************************************************************************)
UpdateShipmentStatus(s, newStatus) ==
    /\ Exists(s)
    /\ shipments[s].status = "in_transit"
    /\ shipments' = [shipments EXCEPT ![s] =
          [@ EXCEPT !.status = newStatus,
                    !.delivered_at = IF newStatus = "delivered" THEN {now} ELSE @]]
    /\ IF newStatus \in {"delivered", "cancelled"}
       THEN /\ drivers' = [d \in Drivers |->
                             IF d = shipments[s].driver_id
                             THEN [drivers[d] EXCEPT !.status = "idle"]
                             ELSE drivers[d]]
            /\ vehicles' = [v \in Vehicles |->
                             IF v = shipments[s].vehicle_id
                             THEN [vehicles[v] EXCEPT !.status = "idle",
                                                      !.current_route = NoRoute,
                                                      !.route_index = 0, !.eta = {}]
                             ELSE vehicles[v]]
       ELSE UNCHANGED <<drivers, vehicles>>
    /\ ClearReports
    /\ UNCHANGED now

DeleteShipment(s) ==
    /\ Exists(s)
    /\ shipments' = [shipments EXCEPT ![s] = [NoShipmentRow EXCEPT !.status = "deleted"]]
    /\ IF shipments[s].status = "in_transit"
       THEN /\ drivers' = [d \in Drivers |->
                             IF d = shipments[s].driver_id
                             THEN [drivers[d] EXCEPT !.status = "idle"]
                             ELSE drivers[d]]
            /\ vehicles' = [v \in Vehicles |->
                             IF v = shipments[s].vehicle_id
                             THEN [vehicles[v] EXCEPT !.status = "idle"]
                             ELSE vehicles[v]]
       ELSE UNCHANGED <<drivers, vehicles>>
    /\ ClearReports
    /\ UNCHANGED now

\* generateDeliveryOTP(): four digits; the code handed out at arrival, and
\* the codes a regeneration or the driver's keypad can produce
ArrivalOtps == {"4821"}
OtpCodes == ArrivalOtps \cup {"7305"}

MarkDriverArrived(s, otp) ==
    /\ Exists(s)
    /\ shipments[s].status = "in_transit"
    /\ shipments' = [shipments EXCEPT ![s].status = "arrived",
                                      ![s].delivery_otp = otp,
                                      ![s].otp_generated_at = {now}]
    /\ ClearReports
    /\ UNCHANGED <<vehicles, drivers, now>>

\* the verification without the test of the OTP's age
verifyOtpError_NoExpiry(s, enteredOtp) ==
    IF ~ Exists(s) THEN "Shipment not found"
    ELSE IF shipments[s].status # "arrived"
         THEN "Shipment must be in arrived status"
    ELSE IF shipments[s].delivery_otp = NoOtp
         THEN "No OTP generated for this shipment"
    ELSE IF shipments[s].delivery_otp # enteredOtp
         THEN "Invalid OTP. Please check with the customer."
    ELSE "none"

\* the error verifyDeliveryOTP returns, "none" when it goes on to the update
verifyOtpError(s, enteredOtp) ==
    IF ~ Exists(s) THEN "Shipment not found"
    ELSE IF shipments[s].status # "arrived"
         THEN "Shipment must be in arrived status"
    ELSE IF shipments[s].delivery_otp = NoOtp
         THEN "No OTP generated for this shipment"
    ELSE IF \E t \in shipments[s].otp_generated_at : now - t > OtpExpiryMs
         THEN "OTP has expired. Please regenerate."
    ELSE IF shipments[s].delivery_otp # enteredOtp
         THEN "Invalid OTP. Please check with the customer."
    ELSE "none"

VerifyDeliveryOTP(s, enteredOtp) ==
    /\ IF verifyOtpError(s, enteredOtp) = "none"
       THEN shipments' = [shipments EXCEPT ![s].otp_verified_at = {now}]
       ELSE UNCHANGED shipments
    /\ response' = [op |-> "verifyDeliveryOTP", shipment |-> s, code |-> enteredOtp,
                    result |-> IF verifyOtpError(s, enteredOtp) = "none" THEN "ok"
                               ELSE verifyOtpError(s, enteredOtp)]
    /\ ClearLogs
    /\ UNCHANGED <<vehicles, drivers, now, inflight, sample>>

RegenerateDeliveryOTP(s, otp) ==
    /\ IF Exists(s) /\ shipments[s].status = "arrived"
       THEN shipments' = [shipments EXCEPT ![s].delivery_otp = otp,
                                          ![s].otp_generated_at = {now},
                                          ![s].otp_verified_at = {}]
       ELSE UNCHANGED shipments
    /\ response' = [op |-> "regenerateDeliveryOTP", shipment |-> s,
                    code |-> IF Exists(s) /\ shipments[s].status = "arrived"
                             THEN otp ELSE NoOtp,
                    result |-> IF ~ Exists(s) THEN "Shipment not found"
                               ELSE IF shipments[s].status # "arrived"
                                    THEN "Shipment must be in arrived status"
                               ELSE "ok"]
    /\ ClearLogs
    /\ UNCHANGED <<vehicles, drivers, now, inflight, sample>>

(***************************************************************************)
(* Payment: the gateway's webhook (POST /api/payment/webhook), the         *)
(* redirect after payment (GET /api/payment/callback) and the demo         *)
(* completion (POST /api/payment/complete).                                *)
(***************************************************************************)
\* the customer page offers payment for an arrived shipment; the gateway's
\* events for that order may come more than once and after its completion
paymentOpen(s) ==
    /\ Exists(s)
    /\ \/ shipments[s].status = "arrived"
       \/ shipments[s].payment_status # NoPayment

\* .update({ status: 'delivered', payment_status: 'completed', ...,
\*           delivered_at: new Date().toISOString() })
paidShipment(row, t) ==
    [row EXCEPT !.status = "delivered", !.payment_status = "completed",
                !.delivered_at = {t}]

\* the shipment's driver and vehicle set back to idle, the route cleared
PaymentRelease(s) ==
    /\ drivers' = [d \in Drivers |->
                     IF d = shipments[s].driver_id
                     THEN [drivers[d] EXCEPT !.status = "idle"]
                     ELSE drivers[d]]
    /\ vehicles' = [v \in Vehicles |->
                      IF v = shipments[s].vehicle_id
                      THEN [vehicles[v] EXCEPT !.status = "idle",
                                               !.current_route = NoRoute,
                                               !.route_index = 0, !.eta = {}]
                      ELSE vehicles[v]]

PaymentWebhook(s, state) ==
    /\ paymentOpen(s)
    /\ IF state = "COMPLETED"
       THEN /\ shipments' = [shipments EXCEPT ![s] = paidShipment(@, now)]
            /\ PaymentRelease(s)
       ELSE /\ shipments' = [shipments EXCEPT ![s].payment_status = "failed"]
            /\ UNCHANGED <<drivers, vehicles>>
    /\ ClearReports
    /\ UNCHANGED now

PaymentCallback(s, state) ==
    /\ paymentOpen(s)
    /\ shipments[s].payment_status # "completed"
    /\ IF state = "SUCCESS"
       THEN /\ shipments' = [shipments EXCEPT ![s] = paidShipment(@, now)]
            /\ PaymentRelease(s)
       ELSE /\ shipments' = [shipments EXCEPT ![s].payment_status = "failed"]
            /\ UNCHANGED <<drivers, vehicles>>
    /\ ClearReports
    /\ UNCHANGED now

\* the validation without the test of the shipment's status
completePaymentError_AnyStatus(s) ==
    IF ~ Exists(s) THEN "Shipment not found"
    ELSE IF shipments[s].payment_status = "completed"
         THEN "Payment already completed"
    ELSE "none"

\* the error POST /api/payment/complete answers with, "none" when it goes on
\* to the updates
completePaymentError(s) ==
    IF ~ Exists(s) THEN "Shipment not found"
    ELSE IF shipments[s].status # "arrived"
         THEN "Shipment must be in arrived status"
    ELSE IF shipments[s].payment_status = "completed"
         THEN "Payment already completed"
    ELSE "none"

CompletePayment(s) ==
    /\ IF completePaymentError(s) = "none"
       THEN /\ shipments' = [shipments EXCEPT ![s] = paidShipment(@, now)]
            /\ PaymentRelease(s)
       ELSE UNCHANGED <<shipments, drivers, vehicles>>
    /\ response' = [op |-> "completePayment", shipment |-> s, code |-> NoOtp,
                    result |-> IF completePaymentError(s) = "none" THEN "ok"
                               ELSE completePaymentError(s)]
    /\ ClearLogs
    /\ UNCHANGED <<now, inflight, sample>>

(***************************************************************************)
(* Driver app: tracking mode and GPS push (useGeolocation).                *)
(***************************************************************************)
SetTrackingMode(v, mode) ==
    /\ vehicles[v].tracking_mode # mode
    /\ vehicles' = [vehicles EXCEPT ![v].tracking_mode = mode]
    /\ ClearReports
    /\ UNCHANGED <<drivers, shipments, now>>

PushLocation(v, pos) ==
    /\ vehicles[v].tracking_mode = "live"
    /\ vehicles[v].position # pos
    /\ vehicles' = [vehicles EXCEPT ![v].position = pos,
                                    ![v].last_location_update = {now}]
    /\ ClearReports
    /\ UNCHANGED <<drivers, shipments, now>>

\* the wall clock moves between handlers
AdvanceClock ==
    /\ now < MaxClockSteps * SIMULATION_INTERVAL_MS
    /\ now' = now + SIMULATION_INTERVAL_MS
    /\ ClearReports
    /\ UNCHANGED <<vehicles, drivers, shipments>>

Next ==
    \/ \E s \in Shipments, d \in Drivers, v \in Vehicles, r \in DispatchRoutes :
          CreateShipment(s, d, v, r)
    \/ Tick
    \/ Reconcile
    \/ SyncVehicleDriverStatuses
    \/ Inspect
    \/ \E s \in Shipments, st \in {"delivered", "cancelled"} :
          UpdateShipmentStatus(s, st)
    \/ \E s \in Shipments : DeleteShipment(s)
    \/ \E s \in Shipments, otp \in ArrivalOtps : MarkDriverArrived(s, otp)
    \/ \E v \in Vehicles, mode \in {"simulated", "live"} : SetTrackingMode(v, mode)
    \/ \E v \in Vehicles, pos \in GpsPositions : PushLocation(v, pos)
    \/ AdvanceClock

Spec == Init /\ [][Next]_vars

(***************************************************************************)
(* A fleet of two vehicles, both dispatched at time 0, and the handlers    *)
(* that act on trips under way.                                            *)
(***************************************************************************)
InitFleet ==
    /\ \E r1 \in {"rA", "rB"}, r2 \in {"rC"} :
          vehicles = [v \in {"v1", "v2"} |->
                        dispatchedVehicle(IdleVehicle, IF v = "v1" THEN r1 ELSE r2, 0)]
    /\ drivers = [d \in {"d1", "d2"} |-> [status |-> "working"]]
    /\ shipments = [s \in Shipments |->
                       [status |-> "in_transit",
                        driver_id |-> IF s = "s1" THEN "d1" ELSE "d2",
                        vehicle_id |-> IF s = "s1" THEN "v1" ELSE "v2",
                        delivered_at |-> {}, payment_status |-> NoPayment,
                        delivery_otp |-> NoOtp, otp_generated_at |-> {},
                        otp_verified_at |-> {}]]
    /\ now = 0
    /\ tickLog = [v \in {"v1", "v2"} |-> NoLog]
    /\ tickResponse = NoTick
    /\ syncReports = <<>>
    /\ inspectReport = NoInspect
    /\ Quiet

NextFleet ==
    \/ Tick
    \/ Reconcile
    \/ SyncVehicleDriverStatuses
    \/ \E s \in Shipments, st \in {"delivered", "cancelled"} :
          UpdateShipmentStatus(s, st)
    \/ \E s \in Shipments : DeleteShipment(s)
    \/ \E s \in Shipments, otp \in ArrivalOtps : MarkDriverArrived(s, otp)
    \/ \E v \in Vehicles, mode \in {"simulated", "live"} : SetTrackingMode(v, mode)

SpecFleet == InitFleet /\ [][NextFleet]_vars

(***************************************************************************)
(* Two vehicles under way at any index below the last point of their       *)
(* routes, and the simulator invoked again and again by the map page's     *)
(* setInterval, every load and write succeeding.                           *)
(***************************************************************************)
enRouteVehicle(r, i) ==
    IF i = 0 THEN dispatchedVehicle(IdleVehicle, r, 0)
    ELSE [dispatchedVehicle(IdleVehicle, r, 0) EXCEPT
             !.position = Point(RouteGeometry(r).coordinates, i),
             !.route_index = i,
             !.eta = {newEta(RouteGeometry(r), i, 0)}]

InitAdvance ==
    /\ \E r1 \in RouteIds, r2 \in RouteIds :
       \E i1 \in 0..(Len(RouteGeometry(r1).coordinates) - 2),
          i2 \in 0..(Len(RouteGeometry(r2).coordinates) - 2) :
          vehicles = [v \in {"v1", "v2"} |->
                        IF v = "v1" THEN enRouteVehicle(r1, i1)
                        ELSE enRouteVehicle(r2, i2)]
    /\ drivers = [d \in {"d1", "d2"} |-> [status |-> "working"]]
    /\ shipments = [s \in Shipments |->
                       [status |-> "in_transit",
                        driver_id |-> IF s = "s1" THEN "d1" ELSE "d2",
                        vehicle_id |-> IF s = "s1" THEN "v1" ELSE "v2",
                        delivered_at |-> {}, payment_status |-> NoPayment,
                        delivery_otp |-> NoOtp, otp_generated_at |-> {},
                        otp_verified_at |-> {}]]
    /\ now = 0
    /\ tickLog = [v \in {"v1", "v2"} |-> NoLog]
    /\ tickResponse = NoTick
    /\ syncReports = <<>>
    /\ inspectReport = NoInspect
    /\ Quiet

StepTick ==
    /\ \E shipmentMap \in shipmentMaps("none") :
       \E variation \in [parsedVehicles -> Variations] :
          RunTick("none", shipmentMap, variation, {})
    /\ syncReports' = <<>>
    /\ inspectReport' = NoInspect
    /\ RunsAlone
    /\ UNCHANGED now

SpecAdvance == InitAdvance /\ [][StepTick]_vars /\ WF_vars(StepTick)

(***************************************************************************)
(* One vehicle and one driver through dispatch, simulation, the driver's   *)
(* arrival and the payment that closes the delivery.                       *)
(***************************************************************************)
NextPayment ==
    \/ \E s \in Shipments, d \in Drivers, v \in Vehicles, r \in DispatchRoutes :
          CreateShipment(s, d, v, r)
    \/ Tick
    \/ \E s \in Shipments, otp \in ArrivalOtps : MarkDriverArrived(s, otp)
    \/ \E s \in Shipments, state \in {"COMPLETED", "FAILED"} : PaymentWebhook(s, state)
    \/ \E s \in Shipments, state \in {"SUCCESS", "FAILED"} : PaymentCallback(s, state)
    \/ \E s \in Shipments : CompletePayment(s)
    \/ AdvanceClock

SpecPayment == Init /\ [][NextPayment]_vars

(***************************************************************************)
(* Two vehicles under way, the current_route column of the first holding  *)
(* a value that is not a route of two points or more, the second a route;  *)
(* a trip whose driver has marked arrival leaves its vehicle in_use with   *)
(* the route in place.  Both were dispatched at time 0 and the simulator   *)
(* runs one interval later.                                                *)
(***************************************************************************)
storedVehicle(r) ==
    IF isValidJson(r) THEN dispatchedVehicle(IdleVehicle, r, 0)
    ELSE [dispatchedVehicle(IdleVehicle, "rA", 0) EXCEPT !.current_route = r]

InitRoutes ==
    /\ \E r1 \in MalformedRoutes, r2 \in RouteIds :
          vehicles = [v \in {"v1", "v2"} |->
                        storedVehicle(IF v = "v1" THEN r1 ELSE r2)]
    /\ drivers = [d \in {"d1", "d2"} |-> [status |-> "working"]]
    /\ shipments = [s \in Shipments |->
                       [status |-> "in_transit",
                        driver_id |-> IF s = "s1" THEN "d1" ELSE "d2",
                        vehicle_id |-> IF s = "s1" THEN "v1" ELSE "v2",
                        delivered_at |-> {}, payment_status |-> NoPayment,
                        delivery_otp |-> NoOtp, otp_generated_at |-> {},
                        otp_verified_at |-> {}]]
    /\ now = SIMULATION_INTERVAL_MS
    /\ tickLog = [v \in {"v1", "v2"} |-> NoLog]
    /\ tickResponse = NoTick
    /\ syncReports = <<>>
    /\ inspectReport = NoInspect
    /\ Quiet

NextRoutes ==
    \/ Tick
    \/ \E s \in Shipments, otp \in ArrivalOtps : MarkDriverArrived(s, otp)

SpecRoutes == InitRoutes /\ [][NextRoutes]_vars

(***************************************************************************)
(* Handlers that overlap.  The map page calls POST /api/simulate every     *)
(* SIMULATION_INTERVAL_MS whether or not the previous call has answered,   *)
(* and every open page runs its own timer: a tick loads the vehicles and   *)
(* the shipments, decides each vehicle's closure from what it loaded, and  *)
(* the closures' updates reach the store one by one, each keyed by id      *)
(* only, while other handlers run in between.  A reconciliation reads,     *)
(* then issues its resets the same way.  Each load is one snapshot and     *)
(* the store accepts every update.                                         *)
(***************************************************************************)
\* the updates of one closure in the order it awaits them
writeOrder(plan) ==
    SelectSeq(<<"shipment", "driver", "vehicle">>, LAMBDA k : k \in writesOf(plan))

\* the closures a tick pushes to `updates`: the plan each was built from,
\* the driver id of the shipment row it loaded, the updates it has yet to send
closuresOf(shipmentMap, variation) ==
    LET planOf(v) == tickPlan(v, shipmentMap[v], variation[v])
    IN [v \in {w \in parsedVehicles : writeOrder(planOf(w)) # << >>} |->
           [plan |-> planOf(v),
            driver |-> IF planOf(v).shipment # NoShipment
                       THEN shipments[planOf(v).shipment].driver_id ELSE NoId,
            pending |-> writeOrder(planOf(v))]]

\* invocation t of the simulator runs up to its first update
TickLoad(t) ==
    /\ inflight.ticks[t] = << >>
    /\ \E shipmentMap \in shipmentMaps("none") :
       \E variation \in [parsedVehicles -> Variations] :
          /\ closuresOf(shipmentMap, variation) # << >>
          /\ inflight' = [inflight EXCEPT !.ticks[t] = closuresOf(shipmentMap, variation)]
    /\ UNCHANGED <<vehicles, drivers, shipments, now, tickLog, tickResponse,
                   syncReports, inspectReport, response, sample>>

\* the closures of tick t once vehicle v's closure has sent its next update
afterWrite(t, v) ==
    LET closures == inflight.ticks[t]
    IN IF Len(closures[v].pending) = 1
       THEN [w \in DOMAIN closures \ {v} |-> closures[w]]
       ELSE [closures EXCEPT ![v].pending = Tail(@)]

\* the next update of vehicle v's closure in tick t reaches the store:
\* .update({...}).eq('id', ...), whatever the row holds by now
TickLand(t, v) ==
    /\ v \in DOMAIN inflight.ticks[t]
    /\ LET closure == inflight.ticks[t][v]
           k == Head(closure.pending)
       IN /\ shipments' = IF k = "shipment"
                          THEN [shipments EXCEPT ![closure.plan.shipment] =
                                  [@ EXCEPT !.status = "delivered",
                                            !.delivered_at = {now}]]
                          ELSE shipments
          /\ drivers' = IF k = "driver"
                        THEN [drivers EXCEPT ![closure.driver].status = "idle"]
                        ELSE drivers
          /\ vehicles' = IF k = "vehicle"
                         THEN [vehicles EXCEPT ![v] =
                                 IF closure.plan.branch = "arrival"
                                 THEN completedVehicle(v, closure.plan)
                                 ELSE advancedVehicle(v, closure.plan)]
                         ELSE vehicles
    /\ inflight' = [inflight EXCEPT !.ticks[t] = afterWrite(t, v)]
    /\ UNCHANGED <<now, tickLog, tickResponse, syncReports, inspectReport,
                   response, sample>>

\* POST /api/sync-status up to its updates: the three reads and the two
\* filters
ReconcileLoad ==
    /\ inflight.reconcile = NoInflight.reconcile
    /\ vehiclesToFix \cup driversToFix # {}
    /\ inflight' = [inflight EXCEPT !.reconcile =
                       [vehicles |-> vehiclesToFix, drivers |-> driversToFix]]
    /\ UNCHANGED <<vehicles, drivers, shipments, now, tickLog, tickResponse,
                   syncReports, inspectReport, response, sample>>

\* one of the updates under Promise.all reaches the store
ReconcileLandVehicle(v) ==
    /\ v \in inflight.reconcile.vehicles
    /\ vehicles' = [vehicles EXCEPT ![v] = fixedVehicle(@)]
    /\ inflight' = [inflight EXCEPT !.reconcile.vehicles = @ \ {v}]
    /\ UNCHANGED <<drivers, shipments, now, tickLog, tickResponse,
                   syncReports, inspectReport, response, sample>>

ReconcileLandDriver(d) ==
    /\ d \in inflight.reconcile.drivers
    /\ drivers' = [drivers EXCEPT ![d] = fixedDriver(@)]
    /\ inflight' = [inflight EXCEPT !.reconcile.drivers = @ \ {d}]
    /\ UNCHANGED <<vehicles, shipments, now, tickLog, tickResponse,
                   syncReports, inspectReport, response, sample>>

NextOverlap ==
    \/ \E s \in Shipments, d \in Drivers, v \in Vehicles, r \in {"rB"} :
          CreateShipment(s, d, v, r)
    \/ \E t \in TickIds : TickLoad(t)
    \/ \E t \in TickIds, v \in Vehicles : TickLand(t, v)
    \/ ReconcileLoad
    \/ \E v \in Vehicles : ReconcileLandVehicle(v)
    \/ \E d \in Drivers : ReconcileLandDriver(d)
    \/ \E s \in Shipments, otp \in ArrivalOtps : MarkDriverArrived(s, otp)
    \/ \E s \in Shipments, st \in {"delivered", "cancelled"} :
          UpdateShipmentStatus(s, st)
    \/ \E s \in Shipments : PaymentCallback(s, "SUCCESS")
    \/ \E v \in Vehicles, mode \in {"simulated", "live"} : SetTrackingMode(v, mode)

SpecOverlap == Init /\ [][NextOverlap]_vars

(***************************************************************************)
(* The hand-over at the destination: the driver marks arrival, the         *)
(* customer reads the OTP to the driver, who enters it, minutes passing in *)
(* between; the OTP can be regenerated and the payment closes the          *)
(* delivery.                                                               *)
(***************************************************************************)
WaitFiveMinutes ==
    /\ now < MaxOtpWaits * 300000
    /\ now' = now + 300000
    /\ ClearReports
    /\ UNCHANGED <<vehicles, drivers, shipments>>

NextOtp ==
    \/ \E s \in Shipments, d \in Drivers, v \in Vehicles, r \in {"rA"} :
          CreateShipment(s, d, v, r)
    \/ \E s \in Shipments, otp \in OtpCodes : MarkDriverArrived(s, otp)
    \/ \E s \in Shipments, enteredOtp \in OtpCodes : VerifyDeliveryOTP(s, enteredOtp)
    \/ \E s \in Shipments, otp \in OtpCodes : RegenerateDeliveryOTP(s, otp)
    \/ \E s \in Shipments : CompletePayment(s)
    \/ WaitFiveMinutes

SpecOtp == Init /\ [][NextOtp]_vars

(***************************************************************************)
(* The Position Advancer's arithmetic on its own: pointsPerUpdate and      *)
(* actualPointsToMove applied to a route and a sample of the variation.    *)
(***************************************************************************)
ApplyAdvance(r, variation) ==
    /\ sample = NoSample
    /\ sample' = [route |-> r, variation |-> variation,
                  pointsPerUpdate |-> pointsPerUpdate(RouteGeometry(r)),
                  actualPointsToMove |->
                      actualPointsToMove(pointsPerUpdate(RouteGeometry(r)), variation)]
    /\ UNCHANGED <<vehicles, drivers, shipments, now, tickLog, tickResponse,
                   syncReports, inspectReport, response, inflight>>

NextJitter == \E r \in SampleRoutes, variation \in JitterSamples : ApplyAdvance(r, variation)

SpecJitter == Init /\ [][NextJitter]_vars

(***************************************************************************)
(* Properties                                                              *)
(***************************************************************************)
\* a step of the simulator, of a reconciliation, of an inspection: only that
\* handler leaves its response behind
TickStep == tickResponse'.status # "none"
ReconcileStep == syncReports' # <<>>
InspectStep == inspectReport'.valid /\ ~ inspectReport.valid

Computed(v) == tickLog[v].branch \in {"arrival", "progress"}

\* C1: one tick writes nothing to a vehicle whose tracking_mode is live when
\* the tick loads it, whatever the vehicle's status and route
C1_LiveVehicleUntouched ==
    [][TickStep => \A v \in Vehicles :
                      vehicles[v].tracking_mode = "live" => vehicles'[v] = vehicles[v]]_vars

\* a tick that skipped an in_use live vehicle with a route while it advanced
\* the other vehicle
C1_Witness ==
    \E v \in Vehicles, w \in Vehicles :
        /\ tickLog[v].branch = "live"
        /\ vehicles[v].current_route # NoRoute
        /\ tickLog[w].branch = "progress"
        /\ tickLog[w].failed = {}

\* C2: after a tick that computed arrival for a vehicle with an owning
\* in_transit shipment, all writes applied, the shipment is delivered with
\* delivered_at set, its driver is idle and the vehicle is idle at the last
\* route point with current_route absent, route_index 0 and eta absent
C2_ArrivalCompletesTrip ==
    \A v \in Vehicles :
        (/\ tickLog[v].branch = "arrival"
         /\ tickLog[v].shipment # NoShipment
         /\ tickLog[v].failed = {})
        => LET s == tickLog[v].shipment
               coords == RouteGeometry(tickLog[v].route).coordinates
           IN /\ shipments[s].status = "delivered"
              /\ shipments[s].delivered_at = {now}
              /\ shipments[s].driver_id # NoId
                    => drivers[shipments[s].driver_id].status = "idle"
              /\ vehicles[v].status = "idle"
              /\ vehicles[v].position = coords[Len(coords)]
              /\ vehicles[v].current_route = NoRoute
              /\ vehicles[v].route_index = 0
              /\ vehicles[v].eta = {}

\* a completed arrival after at least one in-progress tick, at a time > 0
C2_Witness ==
    \E v \in Vehicles :
        /\ tickLog[v].branch = "arrival"
        /\ tickLog[v].shipment # NoShipment
        /\ tickLog[v].failed = {}
        /\ tickLog[v].currentIndex > 0
        /\ now > 0

\* C3: after a tick that computed arrival for a vehicle that no in_transit
\* shipment references, the vehicle is idle (not left in_use) and its route
\* is cleared
C3_ArrivalWithoutShipmentReleases ==
    \A v \in Vehicles :
        (/\ tickLog[v].branch = "arrival"
         /\ tickLog[v].shipment = NoShipment
         /\ ~ \E s \in Shipments : /\ shipments[s].status = "in_transit"
                                   /\ shipments[s].vehicle_id = v)
        => /\ vehicles[v].status = "idle"
           /\ vehicles[v].current_route = NoRoute

\* C4: the tick takes the completion branch exactly when nextIndex is
\* len(points) - 1 and the in-progress branch exactly when it is smaller
C4_ArrivalClosure ==
    \A v \in Vehicles :
        Computed(v) =>
            /\ tickLog[v].branch = "arrival"
                  <=> tickLog[v].nextIndex = tickLog[v].totalPoints - 1
            /\ tickLog[v].branch = "progress"
                  <=> tickLog[v].nextIndex < tickLog[v].totalPoints - 1

\* one tick that took the completion branch for one vehicle, at the last
\* index, and the in-progress branch for the other
C4_Witness ==
    \E v \in Vehicles, w \in Vehicles :
        /\ tickLog[v].branch = "arrival"
        /\ tickLog[v].nextIndex = tickLog[v].totalPoints - 1
        /\ tickLog[w].branch = "progress"

\* C5: for a route of at least 2 points and 0 <= currentIndex < len(points),
\* currentIndex <= nextIndex <= len(points) - 1
C5_MonotonicBoundedIndex ==
    \A v \in Vehicles :
        (/\ Computed(v)
         /\ tickLog[v].totalPoints >= 2
         /\ 0 <= tickLog[v].currentIndex
         /\ tickLog[v].currentIndex < tickLog[v].totalPoints)
        => /\ tickLog[v].currentIndex <= tickLog[v].nextIndex
           /\ tickLog[v].nextIndex <= tickLog[v].totalPoints - 1

\* a tick whose jittered advance overshot the end of the route and was
\* clamped to the last index
C5_Witness ==
    \E v \in Vehicles :
        /\ Computed(v)
        /\ tickLog[v].currentIndex > 0
        /\ \E k \in Variations :
              tickLog[v].currentIndex
                + actualPointsToMove(pointsPerUpdate(RouteGeometry(tickLog[v].route)), k)
                > tickLog[v].totalPoints - 1
        /\ tickLog[v].nextIndex = tickLog[v].totalPoints - 1

\* C6: from any index below the last, repeated ticks reach len(points) - 1:
\* every tick advances by at least one point, and a 2-point route arrives on
\* the first tick
C6_ReachesLastPoint ==
    /\ <>(tickLog["v1"].branch = "arrival"
            /\ tickLog["v1"].nextIndex = tickLog["v1"].totalPoints - 1)
    /\ <>(tickLog["v2"].branch = "arrival"
            /\ tickLog["v2"].nextIndex = tickLog["v2"].totalPoints - 1)
    /\ [](\A v \in Vehicles :
            Computed(v) =>
               /\ tickLog[v].currentIndex < tickLog[v].totalPoints - 1
                     => tickLog[v].nextIndex >= tickLog[v].currentIndex + 1
               /\ tickLog[v].totalPoints = 2 => tickLog[v].branch = "arrival")

\* a 2-point route arriving in the same tick as a longer route that needed
\* earlier ticks
C6_Witness ==
    \E v \in Vehicles, w \in Vehicles :
        /\ tickLog[v].branch = "arrival"
        /\ tickLog[v].totalPoints = 2
        /\ tickLog[w].branch = "arrival"
        /\ tickLog[w].totalPoints > 2
        /\ tickLog[w].currentIndex > 0

\* C7: every eta a tick computes on the in-progress branch, and writes to
\* the vehicle, is not earlier than the tick's now
C7_EtaNotInPast ==
    \A v \in Vehicles :
        tickLog[v].branch = "progress"
        => /\ tickLog[v].eta # {}
           /\ \A e \in tickLog[v].eta : e >= now
           /\ tickLog[v].failed = {} => vehicles[v].eta = tickLog[v].eta

\* an eta written at a time > 0 from the remaining distance of a route
\* without duration
C7_Witness ==
    \E v \in Vehicles :
        /\ tickLog[v].branch = "progress"
        /\ tickLog[v].failed = {}
        /\ RouteGeometry(tickLog[v].route).duration = 0
        /\ now > 0
        /\ \E e \in vehicles[v].eta : e > now

NothingFixed == [vehiclesFixed |-> {}, driversFixed |-> {}]

C11_LoadFailureAbortsTick ==
    [][(TickStep /\ tickResponse'.loadFailed # "none")
          => /\ tickResponse'.status = "error"
             /\ store' = store]_vars

\* C12: a tick whose loads succeeded writes nothing to a simulated in_use
\* vehicle whose route is malformed (not JSON, no coordinates array, an empty
\* point list, a single point), nor to the shipments that reference the
\* vehicle and their drivers, and it does not answer with an error
C12_MalformedRouteSkipped ==
    [][(TickStep /\ tickResponse'.loadFailed = "none")
          => \A v \in Vehicles :
                (/\ vehicles[v].status = "in_use"
                 /\ vehicles[v].tracking_mode = "simulated"
                 /\ vehicles[v].current_route \in MalformedRoutes)
                => /\ vehicles'[v] = vehicles[v]
                   /\ \A s \in Shipments :
                         shipments[s].vehicle_id = v
                         => /\ shipments'[s] = shipments[s]
                            /\ shipments[s].driver_id # NoId
                                  => drivers'[shipments[s].driver_id]
                                        = drivers[shipments[s].driver_id]
                   /\ tickResponse'.status = "ok"]_vars

\* C13: after a tick in which a write of one vehicle was rejected, the tick
\* has answered ok and every other vehicle whose writes were all accepted
\* carries what the tick computed for it: the new index, position and eta,
\* or the completed trip
C13_FailedWriteIsIsolated ==
    \A v \in Vehicles :
        tickLog[v].failed # {}
        => /\ tickResponse.status = "ok"
           /\ \A w \in Vehicles \ {v} :
                 (Computed(w) /\ tickLog[w].failed = {})
                 => LET coords == RouteGeometry(tickLog[w].route).coordinates
                    IN /\ tickLog[w].branch = "progress"
                             => /\ vehicles[w].route_index = tickLog[w].nextIndex
                                /\ vehicles[w].position = Point(coords, tickLog[w].nextIndex)
                                /\ vehicles[w].eta = tickLog[w].eta
                       /\ (tickLog[w].branch = "arrival" /\ tickLog[w].shipment # NoShipment)
                             => /\ vehicles[w].status = "idle"
                                /\ vehicles[w].current_route = NoRoute
                                /\ shipments[tickLog[w].shipment].status = "delivered"

\* a tick in which one vehicle's write was rejected and the other vehicle
\* moved forward
C13_Witness ==
    \E v \in Vehicles, w \in Vehicles :
        /\ v # w
        /\ tickLog[v].failed # {}
        /\ tickLog[w].branch = "progress"
        /\ tickLog[w].failed = {}
        /\ tickLog[w].nextIndex > tickLog[w].currentIndex
        /\ vehicles[w].route_index = tickLog[w].nextIndex
        /\ tickResponse.status = "ok"

\* C14: a tick leaves a simulated in_use vehicle without a route exactly as
\* it is and does not count it: the count it answers is at most the number
\* of simulated in_use vehicles that have a route
C14_NoRouteVehicleUntouched ==
    [][TickStep
          => \A v \in Vehicles :
                (/\ vehicles[v].status = "in_use"
                 /\ vehicles[v].tracking_mode = "simulated"
                 /\ vehicles[v].current_route = NoRoute)
                => /\ vehicles'[v] = vehicles[v]
                   /\ tickResponse'.updated
                         <= Cardinality({w \in Vehicles :
                                           /\ vehicles[w].status = "in_use"
                                           /\ vehicles[w].tracking_mode = "simulated"
                                           /\ vehicles[w].current_route # NoRoute})]_vars

\* a successful tick that skipped a vehicle without a route although an
\* in_transit shipment references it, and counted nothing
C14_Witness ==
    \E v \in Vehicles :
        /\ tickLog[v].branch = "no_route"
        /\ tickLog[v].shipment # NoShipment
        /\ vehicles[v].status = "in_use"
        /\ vehicles[v].current_route = NoRoute
        /\ tickResponse.status = "ok"
        /\ tickResponse.updated = 0

\* C15: in every reachable state a vehicle whose status is idle has
\* current_route absent, route_index 0 and eta absent
C15_IdleVehicleHasNoRoute ==
    \A v \in Vehicles :
        vehicles[v].status = "idle"
        => /\ vehicles[v].current_route = NoRoute
           /\ vehicles[v].route_index = 0
           /\ vehicles[v].eta = {}

\* C17: in every reachable state at most one in_transit shipment references
\* any given vehicle
C17_OneActiveShipmentPerVehicle ==
    \A v \in Vehicles : Cardinality(activeShipmentsOf(v)) <= 1

\* C18: in every reachable state a vehicle is in_use exactly when some
\* in_transit shipment references it, and a driver is working exactly when
\* some in_transit shipment references them
C18_BusyIffInTransit ==
    /\ \A v \in Vehicles :
          vehicles[v].status = "in_use"
             <=> \E s \in Shipments : /\ shipments[s].status = "in_transit"
                                      /\ shipments[s].vehicle_id = v
    /\ \A d \in Drivers :
          drivers[d].status = "working"
             <=> \E s \in Shipments : /\ shipments[s].status = "in_transit"
                                      /\ shipments[s].driver_id = d

\* C16: once a shipment's delivered_at is set, no later operation on that
\* shipment writes another value to it
C16_DeliveredAtSetOnce ==
    [][\A s \in Shipments :
          (shipments[s].delivered_at # {} /\ shipments'[s].status # "deleted")
          => shipments'[s].delivered_at = shipments[s].delivered_at]_vars

\* C19: a tick that takes the in-progress branch for a vehicle, its write
\* accepted, changes of that vehicle exactly position (the point at
\* nextIndex), route_index (nextIndex), eta and last_location_update (now),
\* and leaves the shipments that reference the vehicle and their drivers
\* unchanged
C19_ProgressWritesOnlyPosition ==
    [][TickStep
          => \A v \in Vehicles :
                (tickLog'[v].branch = "progress" /\ tickLog'[v].failed = {})
                => /\ tickLog'[v].eta # {}
                   /\ vehicles'[v] =
                         [vehicles[v] EXCEPT
                             !.position = Point(RouteGeometry(vehicles[v].current_route).coordinates,
                                                tickLog'[v].nextIndex),
                             !.route_index = tickLog'[v].nextIndex,
                             !.eta = tickLog'[v].eta,
                             !.last_location_update = {now}]
                   /\ \A s \in Shipments :
                         shipments[s].vehicle_id = v
                         => /\ shipments'[s] = shipments[s]
                            /\ shipments[s].driver_id # NoId
                                  => drivers'[shipments[s].driver_id]
                                        = drivers[shipments[s].driver_id]]_vars

\* at a time > 0, a tick that moved one vehicle forward, its shipment still
\* in_transit, while it completed the trip of the other vehicle
C19_Witness ==
    \E v \in Vehicles, w \in Vehicles :
        /\ tickLog[v].branch = "progress"
        /\ tickLog[v].failed = {}
        /\ tickLog[v].nextIndex > tickLog[v].currentIndex
        /\ vehicles[v].route_index = tickLog[v].nextIndex
        /\ vehicles[v].last_location_update = {now}
        /\ now > 0
        /\ tickLog[v].shipment # NoShipment
        /\ shipments[tickLog[v].shipment].status = "in_transit"
        /\ tickLog[w].branch = "arrival"
        /\ tickLog[w].shipment # NoShipment
        /\ shipments[tickLog[w].shipment].status = "delivered"

\* C20: with the tick invoked again and again and every load and write
\* succeeding, each vehicle under way with an owning in_transit shipment
\* eventually has a tick compute the last index of its route, and in the
\* state that tick leaves the shipment is delivered and the vehicle idle
C20_TripEventuallyDelivered ==
    /\ <>(/\ tickLog["v1"].branch = "arrival"
          /\ tickLog["v1"].nextIndex = tickLog["v1"].totalPoints - 1
          /\ shipments["s1"].status = "delivered"
          /\ vehicles["v1"].status = "idle")
    /\ <>(/\ tickLog["v2"].branch = "arrival"
          /\ tickLog["v2"].nextIndex = tickLog["v2"].totalPoints - 1
          /\ shipments["s2"].status = "delivered"
          /\ vehicles["v2"].status = "idle")

\* both trips over: one completed by a tick that started below the last
\* index after earlier in-progress ticks, the other already completed
C20_Witness ==
    \E v \in Vehicles, w \in Vehicles :
        /\ v # w
        /\ tickLog[v].branch = "arrival"
        /\ tickLog[v].currentIndex > 0
        /\ tickLog[v].shipment # NoShipment
        /\ shipments[tickLog[v].shipment].status = "delivered"
        /\ vehicles[v].status = "idle"
        /\ tickLog[w].branch = "not_loaded"
        /\ vehicles[w].status = "idle"
        /\ \A s \in Shipments : shipments[s].status = "delivered"

\* the tick before this state delivered v's shipment and the store rejected
\* the release of the vehicle or of the driver; no other shipment in transit
\* is on the vehicle
InterruptedCompletion(v) ==
    /\ tickLog[v].branch = "arrival"
    /\ tickLog[v].shipment # NoShipment
    /\ "shipment" \notin tickLog[v].failed
    /\ tickLog[v].failed # {}
    /\ \A s \in Shipments : shipments[s].status = "in_transit"
                                => shipments[s].vehicle_id # v

LeastAtLeast(k, num, den) ==
    /\ k >= 1
    /\ k * den >= num
    /\ k > 1 => (k - 1) * den < num

\* C23: the points advanced before jitter are max(1, ceil(len / (duration / 3)))
\* with the route's duration when it is > 0 and with the duration of the
\* route's distance (10 km when absent) at 30 km/h otherwise; the jittered
\* advance is within one half of that number times the multiplier, the
\* multiplier is between 0.8 and 1.2, and the advance is at least 1
C23_PointsPerTickFormula ==
    sample # NoSample =>
       LET route == RouteGeometry(sample.route)
           len == Len(route.coordinates)
           ppu == sample.pointsPerUpdate
           moved == sample.actualPointsToMove
           metres == IF route.distance # 0 THEN route.distance ELSE 10000
       IN /\ IF route.duration > 0
             THEN LeastAtLeast(ppu, len * 3, route.duration)
             \* duration = metres / 1000 / 30 * 3600 seconds = metres * 3 / 25
             ELSE LeastAtLeast(ppu, len * 3 * 25, metres * 3)
          /\ sample.variation >= 800
          /\ sample.variation <= 1200
          /\ moved >= 1
          /\ 2 * Abs(1000 * moved - ppu * sample.variation) <= 1000

\* a route without duration whose distance asks for three points a tick,
\* moved four points by a multiplier near 1.2
C23_Witness ==
    /\ sample.route = "rF"
    /\ sample.pointsPerUpdate = 3
    /\ sample.actualPointsToMove = 4

\* the shipment vehicle v carried has left in_transit: a shipment that names
\* v is arrived, delivered or cancelled, and none that names v is in transit
TripOver(v) ==
    /\ \E s \in Shipments : /\ shipments[s].vehicle_id = v
                             /\ shipments[s].status \in {"arrived", "delivered", "cancelled"}
    /\ \A s \in Shipments : shipments[s].status = "in_transit"
                                => shipments[s].vehicle_id # v

\* C24: once the shipment a vehicle carried has left in_transit, no tick
\* changes the vehicle's position or its route_index
C24_NoSimulationAfterTransit ==
    [][TickStep => \A v \in Vehicles :
                      TripOver(v) => /\ vehicles'[v].position = vehicles[v].position
                                     /\ vehicles'[v].route_index = vehicles[v].route_index]_vars

\* C28: whenever the completion of a tick has set a vehicle to idle, the
\* shipment the vehicle carried is delivered: the shipment write comes
\* before the vehicle write
C28_ReleaseFollowsDelivery ==
    \A v \in Vehicles :
        (/\ tickLog[v].branch = "arrival"
         /\ tickLog[v].shipment # NoShipment
         /\ "vehicle" \notin tickLog[v].failed
         /\ vehicles[v].status = "idle")
        => shipments[tickLog[v].shipment].status = "delivered"

\* a step of POST /api/payment/complete for shipment s
CompleteStep(s) ==
    /\ response'.op = "completePayment"
    /\ response'.shipment = s

\* C29: a call of complete-payment for a shipment that is arrived with its
\* payment not completed answers success, marks the shipment delivered and
\* paid at the current time and sets its driver and vehicle to idle with the
\* route cleared, and the shipment had never been delivered before; a call
\* in any other case answers an error and leaves every record as it was
C29_CompletePaymentGuards ==
    [][\A s \in Shipments :
         CompleteStep(s) =>
            IF shipments[s].status = "arrived" /\ shipments[s].payment_status # "completed"
            THEN /\ response'.result = "ok"
                 /\ shipments[s].delivered_at = {}
                 /\ shipments'[s].status = "delivered"
                 /\ shipments'[s].payment_status = "completed"
                 /\ shipments'[s].delivered_at = {now}
                 /\ \A t \in Shipments \ {s} : shipments'[t] = shipments[t]
                 /\ drivers'[shipments[s].driver_id].status = "idle"
                 /\ vehicles'[shipments[s].vehicle_id].status = "idle"
                 /\ vehicles'[shipments[s].vehicle_id].current_route = NoRoute
                 /\ vehicles'[shipments[s].vehicle_id].route_index = 0
                 /\ vehicles'[shipments[s].vehicle_id].eta = {}
            ELSE /\ response'.result \notin {"ok", "none"}
                 /\ UNCHANGED store]_vars

\* a call has just completed the payment of an arrived shipment, some time
\* after the arrival
C29_Witness ==
    /\ response.op = "completePayment"
    /\ response.result = "ok"
    /\ shipments[response.shipment].status = "delivered"
    /\ shipments[response.shipment].delivered_at = {now}
    /\ shipments[response.shipment].otp_generated_at # {now}
    /\ vehicles[shipments[response.shipment].vehicle_id].status = "idle"

\* a call of verifyDeliveryOTP for shipment s
VerifyStep(s) ==
    /\ response'.op = "verifyDeliveryOTP"
    /\ response'.shipment = s

\* C30: a call of verifyDeliveryOTP for a shipment that is arrived, has a
\* delivery OTP stored, generated at most 10 minutes before the call and
\* equal to the entered code, answers success and sets otp_verified_at to
\* the time of the call and nothing else; a call in any other case answers
\* an error and leaves every record as it was
C30_VerifyOtpGuards ==
    [][\A s \in Shipments :
         VerifyStep(s) =>
            IF /\ shipments[s].status = "arrived"
               /\ shipments[s].delivery_otp # NoOtp
               /\ \A t \in shipments[s].otp_generated_at : now - t <= 10 * 60 * 1000
               /\ shipments[s].delivery_otp = response'.code
            THEN /\ response'.result = "ok"
                 /\ shipments' = [shipments EXCEPT ![s].otp_verified_at = {now}]
                 /\ UNCHANGED <<vehicles, drivers>>
            ELSE /\ response'.result \notin {"ok", "none"}
                 /\ UNCHANGED store]_vars

\* an OTP verified exactly ten minutes after it was generated
C30_Witness ==
    /\ response.op = "verifyDeliveryOTP"
    /\ response.result = "ok"
    /\ shipments[response.shipment].status = "arrived"
    /\ shipments[response.shipment].delivery_otp = response.code
    /\ shipments[response.shipment].otp_verified_at = {now}
    /\ shipments[response.shipment].otp_generated_at = {now - 10 * 60 * 1000}

\* in this step update k of vehicle v's closure in tick t reaches the store
Lands(t, v, k) ==
    /\ v \in DOMAIN inflight.ticks[t]
    /\ Head(inflight.ticks[t][v].pending) = k
    /\ inflight'.ticks[t] = afterWrite(t, v)

\* vehicle v is on the same trip before and after the step
SameTrip(v) ==
    /\ vehicles[v].status = "in_use"
    /\ vehicles'[v].status = "in_use"
    /\ \E s \in Shipments : /\ shipments[s].vehicle_id = v
                             /\ shipments[s].status = "in_transit"
                             /\ shipments'[s].vehicle_id = v
                             /\ shipments'[s].status = "in_transit"

\* C22: while a vehicle is on one trip its stored route_index never
\* decreases, however the invocations of the simulator overlap
C22_RouteIndexNeverDecreases ==
    [][\A v \in Vehicles :
         SameTrip(v) => vehicles'[v].route_index >= vehicles[v].route_index]_vars

\* C25: no update of a tick reaches the row of a vehicle whose stored
\* tracking_mode is live when the update is applied
C25_NoTickWriteOnLiveVehicle ==
    [][\A t \in TickIds, v \in Vehicles :
         Lands(t, v, "vehicle") => vehicles[v].tracking_mode # "live"]_vars

\* C26: the completion's shipment update is applied only to a shipment that
\* is in_transit when the update reaches the store
C26_DeliversOnlyInTransit ==
    [][\A t \in TickIds, v \in Vehicles :
         Lands(t, v, "shipment")
            => shipments[inflight.ticks[t][v].plan.shipment].status = "in_transit"]_vars

\* C27: a reset of the reconciliation is applied only to a vehicle and to a
\* driver that no in_transit shipment names when the reset reaches the store
C27_ReconcileSparesBusyRows ==
    [][/\ \A v \in inflight.reconcile.vehicles \ inflight'.reconcile.vehicles :
            \A s \in Shipments : shipments[s].status = "in_transit"
                                      => shipments[s].vehicle_id # v
       /\ \A d \in inflight.reconcile.drivers \ inflight'.reconcile.drivers :
            \A s \in Shipments : shipments[s].status = "in_transit"
                                      => shipments[s].driver_id # d]_vars

====
